---- MODULE Spec2Model ----
(***************************************************************************)
(* Model of the request handlers of src/api/src/handlers.rs: the batched   *)
(* handler `chat` and the streaming handler `chat_stream` with its         *)
(* spawned background task.  Backend A is the DeepSeek client, backend B   *)
(* the Anthropic client.  Text is a sequence of tokens; an Option is a     *)
(* sequence of length 0 (None) or 1 (Some).                                *)
(***************************************************************************)
EXTENDS Integers, Sequences, FiniteSets, TLC

\* ---------------------------------------------------------------- bounds
LongLen == 100       \* Ok elements of the long backend A stream
MaxChunks == 2      \* Ok elements one backend stream may yield

\* ------------------------------------------------------------- constants
ChannelCapacity == 100

\* ------------------------------------------------------------ data model
NoneOpt == <<>>
Some(x) == <<x>>
IsSome(o) == Len(o) = 1
Unwrap(o) == o[1]

unwrap_or(o, d) == IF IsSome(o) THEN Unwrap(o) ELSE d

Alphabet == {"a", "b"}
Texts == {<<>>} \cup {<<c>> : c \in Alphabet}

OpenTag == <<"<thinking>", "\n">>
CloseTag == <<"\n", "</thinking>">>

\* format!("<thinking>\n{}\n</thinking>", reasoning)
ThinkingContent(reasoning) == OpenTag \o reasoning \o CloseTag

\* token counts a backend reports (the snapshots (100,50), (100,80), (90,80)
\* and the fourth combination)
PromptTokens == {90, 100}
CompletionTokens == {50, 80}

\* usage object of a response or of a stream chunk
Usages ==
    { [prompt_tokens |-> p, completion_tokens |-> c, total_tokens |-> p + c] :
        p \in PromptTokens, c \in CompletionTokens }

\* one Ok element of a backend stream: choices.first().delta.content, usage
Chunks == [content : {NoneOpt} \cup {Some(t) : t \in Texts},
           usage : {NoneOpt} \cup {Some(u) : u \in Usages}]

Msg(r, c) == [role |-> r, content |-> c]

Conversations ==
    { << Msg("user", <<"q">>) >>,
      << Msg("system", <<"s">>), Msg("user", <<"q">>),
         Msg("assistant", <<"r">>), Msg("user", <<"q">>) >> }

NoUsage == [input_tokens |-> 0, output_tokens |-> 0, total_tokens |-> 0]

\* ------------------------------------------------------------- costs
\* state.config: prices in dollars per million tokens.  Nothing in the
\* handlers writes it.
Config ==
    [pricing |->
        [deepseek |-> [input_cache_hit_price |-> 4,
                       input_cache_miss_price |-> 15,
                       output_price |-> 28],
         anthropic |-> [claude_3_sonnet |->
                          [input_price |-> 6, output_price |-> 25,
                           cache_write_price |-> 8,
                           cache_read_price |-> 1]]]]

\* Money is counted in millionths of a dollar, so that
\* (tokens / 1_000_000.0) * price is tokens * price.
calculate_deepseek_cost(input_tokens, output_tokens, config) ==
    LET cached_tokens == 0
        cache_hit_cost ==
            cached_tokens * config.pricing.deepseek.input_cache_hit_price
        cache_miss_cost ==
            (input_tokens - cached_tokens)
                * config.pricing.deepseek.input_cache_miss_price
        output_cost == output_tokens * config.pricing.deepseek.output_price
    IN  cache_hit_cost + cache_miss_cost + output_cost

calculate_anthropic_cost(input_tokens, output_tokens, config) ==
    LET pricing == config.pricing.anthropic.claude_3_sonnet
        cache_write_tokens == 0
        cache_read_tokens == 0
        input_cost == input_tokens * pricing.input_price
        output_cost == output_tokens * pricing.output_price
        cache_write_cost == cache_write_tokens * pricing.cache_write_price
        cache_read_cost == cache_read_tokens * pricing.cache_read_price
    IN  input_cost + output_cost + cache_write_cost + cache_read_cost

Digit(n) == <<"0", "1", "2", "3", "4", "5", "6", "7", "8", "9">>[n + 1]

RECURSIVE Digits(_)
Digits(n) == IF n < 10 THEN <<Digit(n)>>
             ELSE Append(Digits(n \div 10), Digit(n % 10))

\* the thousandths of a dollar `{:.3}` may print for a cost: the nearest
\* one; a cost exactly halfway between two of them goes to either,
\* depending on how the f64 that holds it fell
Thousandths(cost) ==
    LET down == cost \div 1000
    IN  IF cost % 1000 < 500 THEN {down}
        ELSE IF cost % 1000 > 500 THEN {down + 1}
        ELSE {down, down + 1}

\* "$" and three decimals
Render(m) ==
    <<"$">> \o Digits(m \div 1000) \o <<".">> \o
    <<Digit((m \div 100) % 10), Digit((m \div 10) % 10), Digit(m % 10)>>

\* format!("${:.3}", cost): the strings it may yield
format_cost(cost) == {Render(m) : m \in Thousandths(cost)}

\* mutant: the combined cost is the sum of the two rounded costs
CostStrings_SumOfRounded(deepseek_cost, anthropic_cost) ==
    { [total_cost |-> Render(d + a), deepseek |-> Render(d),
       anthropic |-> Render(a)] :
        d \in Thousandths(deepseek_cost), a \in Thousandths(anthropic_cost) }

\* the three total_cost strings of a CombinedUsage
CostStrings(deepseek_cost, anthropic_cost) ==
    [total_cost : format_cost(deepseek_cost + anthropic_cost),
     deepseek : format_cost(deepseek_cost),
     anthropic : format_cost(anthropic_cost)]

\* no CombinedUsage
NoCost == [total_cost |-> <<>>, deepseek |-> <<>>, anthropic |-> <<>>]

Ev(t, k, x, u) ==
    [type |-> t, kind |-> k, text |-> x,
     deepseek_usage |-> u[1], anthropic_usage |-> u[2], cost |-> NoCost]

StartEvent == Ev("start", "", <<>>, <<NoUsage, NoUsage>>)
ContentEvent(k, x) == Ev("content", k, x, <<NoUsage, NoUsage>>)
ErrorEvent(who) == Ev("error", who, <<>>, <<NoUsage, NoUsage>>)
UsageEvent(d, a, k) == [Ev("usage", "", <<>>, <<d, a>>) EXCEPT !.cost = k]
DoneEvent == Ev("done", "", <<>>, <<NoUsage, NoUsage>>)

Max(a, b) == IF a >= b THEN a ELSE b

\* the field-wise maximum so far once chunk c has been observed
Seen(old, c) ==
    IF IsSome(c.usage)
    THEN << IF Unwrap(c.usage).prompt_tokens >= old[1]
            THEN Unwrap(c.usage).prompt_tokens ELSE old[1],
            IF Unwrap(c.usage).completion_tokens >= old[2]
            THEN Unwrap(c.usage).completion_tokens ELSE old[2] >>
    ELSE old

VARIABLES
    pc,                      \* position of the handler / background task
    messages,                \* request.get_messages_with_system()
    callsA, callsB,          \* invocations of each backend's capability
    anthropic_messages,      \* Option: the message list handed to backend B
    sent,                    \* every event the task passed to tx.send
    chan, rxAlive, txDropped,\* the mpsc channel
    aCount, bCount,          \* Ok elements consumed from each stream
    complete_reasoning, deepseek_usage,
    total_content, anthropic_input_tokens, anthropic_output_tokens,
    aText, bText,            \* history: all content deltas of each stream, joined
    aSeen, bSeen,            \* history: field-wise maximum <<prompt, completion>>
                             \* of the usage snapshots of each stream, or the
                             \* usage of a batched answer
    bBelow,                  \* history: backend B sent a snapshot with a field
                             \* below an earlier one
    failure,                 \* history: the backend whose call yielded Err
    aYielded, bYielded,      \* history: the backend's call yielded content
    response,                \* Option: what `chat` returned
    request,                 \* Option, history: what the handler's checks saw
    received,                \* every event the consumer took from the channel
    rxDone,                  \* the consumer has observed the end of the stream
    dropEarly,               \* history: the receiver was dropped before backend
                             \* B was invoked
    turn,                    \* the session the variables above belong to
    other                    \* the state of the session that is not running

chanVars == <<sent, chan, rxAlive, txDropped>>
taskVars == <<aCount, bCount, complete_reasoning, deepseek_usage,
              total_content, anthropic_input_tokens, anthropic_output_tokens>>
histVars == <<aText, bText, aSeen, bSeen, bBelow, failure, aYielded,
              bYielded>>
consVars == <<received, rxDone, dropEarly>>
sessVars == <<turn, other>>
vars == <<pc, messages, callsA, callsB, anthropic_messages, chanVars,
          taskVars, histVars, response, request, consVars, sessVars>>

\* everything one invocation of a handler owns: its locals, its channel and
\* its history
Session ==
    [pc |-> pc,
     messages |-> messages,
     callsA |-> callsA,
     callsB |-> callsB,
     anthropic_messages |-> anthropic_messages,
     sent |-> sent,
     chan |-> chan,
     rxAlive |-> rxAlive,
     txDropped |-> txDropped,
     aCount |-> aCount,
     bCount |-> bCount,
     complete_reasoning |-> complete_reasoning,
     deepseek_usage |-> deepseek_usage,
     total_content |-> total_content,
     anthropic_input_tokens |-> anthropic_input_tokens,
     anthropic_output_tokens |-> anthropic_output_tokens,
     aText |-> aText,
     bText |-> bText,
     aSeen |-> aSeen,
     bSeen |-> bSeen,
     bBelow |-> bBelow,
     failure |-> failure,
     aYielded |-> aYielded,
     bYielded |-> bYielded,
     response |-> response,
     request |-> request,
     received |-> received,
     rxDone |-> rxDone,
     dropEarly |-> dropEarly]

Init ==
    /\ pc = "idle"
    /\ messages \in Conversations
    /\ callsA = 0 /\ callsB = 0
    /\ anthropic_messages = NoneOpt
    /\ sent = <<>> /\ chan = <<>> /\ rxAlive = TRUE /\ txDropped = FALSE
    /\ aCount = 0 /\ bCount = 0
    /\ complete_reasoning = <<>> /\ deepseek_usage = NoneOpt
    /\ total_content = <<>>
    /\ anthropic_input_tokens = 0 /\ anthropic_output_tokens = 0
    /\ aText = <<>> /\ bText = <<>> /\ aSeen = <<0, 0>> /\ bSeen = <<0, 0>>
    /\ bBelow = FALSE /\ failure = "none"
    /\ aYielded = FALSE /\ bYielded = FALSE
    /\ response = NoneOpt
    /\ request = NoneOpt
    /\ received = <<>> /\ rxDone = FALSE /\ dropEarly = FALSE
    /\ turn = 1
    /\ other = Session

\* --------------------------------------------------------------- channel
\* tx.send(..).await completes when there is room, or at once with an Err
\* (ignored by `let _ =`) when the receiver is gone
\* mutant: a send waits for a slot even when the receiver is gone
CanSend_NeedsReceiver == rxAlive /\ Len(chan) < ChannelCapacity

\* tx.send(..).await returns once a slot is free, or at once with Err when
\* the receiver was dropped; the task ignores the result (`let _ =`)
CanSend == ~rxAlive \/ Len(chan) < ChannelCapacity

\* mutant: an unbounded channel, a send never waits
Send_Unbounded(e) ==
    /\ sent' = Append(sent, e)
    /\ chan' = IF rxAlive THEN Append(chan, e) ELSE chan
    /\ UNCHANGED rxAlive

Send(e) ==
    /\ CanSend
    /\ sent' = Append(sent, e)
    /\ chan' = IF rxAlive THEN Append(chan, e) ELSE chan
    /\ UNCHANGED rxAlive

\* ------------------------------------------------------ request checking
Headers == {"absent", "malformed", "token"}

\* extract_api_tokens: Ok for a readable header, else the error it returns
extract_api_tokens(header) ==
    CASE header = "absent" -> "MissingHeader"
      [] header = "malformed" -> "BadRequest"
      [] OTHER -> "Ok"

\* what the checks look at: request.validate_system_prompt() and the
\* X-OpenRouter-API-Token header
Request(validPrompt, header) == [validPrompt |-> validPrompt, header |-> header]

\* the checks both handlers make before creating any client
Precheck(validPrompt, header) ==
    IF ~validPrompt THEN "InvalidSystemPrompt" ELSE extract_api_tokens(header)

\* Err(ApiError): the variant and, for backend errors, its type_
ErrResponse(variant, type_) ==
    [status |-> "err", error |-> <<variant, type_>>, content |-> <<>>,
     deepseek_usage |-> NoUsage, anthropic_usage |-> NoUsage,
     cost |-> NoCost]

\* Ok(Json(ApiResponse))
OkResponse(content, du, au) ==
    [status |-> "ok", error |-> <<"", "">>, content |-> content,
     deepseek_usage |-> du, anthropic_usage |-> au, cost |-> NoCost]

\* ------------------------------------------------- chat_stream: handler
\* rejected before the channel exists: Err returned, nothing spawned
ChatStreamReject ==
    /\ pc = "idle"
    /\ \E validPrompt \in BOOLEAN, header \in Headers :
          /\ Precheck(validPrompt, header) # "Ok"
          /\ request' = Some(Request(validPrompt, header))
          /\ response' = Some(ErrResponse(Precheck(validPrompt, header), ""))
    /\ pc' = "rejected"
    /\ UNCHANGED <<sessVars, consVars, messages, callsA, callsB, anthropic_messages, chanVars,
                   taskVars, histVars>>

\* mutant: the task is spawned before the request is checked
ChatStreamSpawn_Unchecked ==
    /\ pc = "idle"
    /\ \E validPrompt \in BOOLEAN, header \in Headers :
          request' = Some(Request(validPrompt, header))
    /\ pc' = "start"
    /\ UNCHANGED <<sessVars, consVars, messages, callsA, callsB, anthropic_messages,
                   chanVars, taskVars, histVars, response>>

\* channel created, task spawned, SseResponse returned
ChatStreamSpawn ==
    /\ pc = "idle"
    /\ \E validPrompt \in BOOLEAN, header \in Headers :
          /\ Precheck(validPrompt, header) = "Ok"
          /\ request' = Some(Request(validPrompt, header))
    /\ pc' = "start"
    /\ UNCHANGED <<sessVars, consVars, messages, callsA, callsB, anthropic_messages, chanVars,
                   taskVars, histVars, response>>

\* ---------------------------------------------- chat_stream: spawned task
\* send `start`, then create backend A's stream
SendStart ==
    /\ pc = "start"
    /\ Send(StartEvent)
    /\ callsA' = callsA + 1
    /\ deepseek_usage' = NoneOpt
    /\ complete_reasoning' = <<>>
    /\ pc' = "openTag"
    /\ UNCHANGED <<sessVars, request, consVars, messages, callsB, anthropic_messages, txDropped,
                   aCount, bCount, total_content, anthropic_input_tokens,
                   anthropic_output_tokens, histVars, response>>

SendOpenTag ==
    /\ pc = "openTag"
    /\ Send(ContentEvent("text", OpenTag))
    /\ pc' = "aNext"
    /\ UNCHANGED <<sessVars, request, consVars, messages, callsA, callsB, anthropic_messages, txDropped,
                   taskVars, histVars, response>>

\* what the task keeps of backend A's usage after a chunk
TrackDeepseekUsage(old, c) == IF IsSome(c.usage) THEN c.usage ELSE old

\* mutant: an empty delta counts as a delta
HasDelta_Any(c) == IsSome(c.content)

\* the chunk's delta is forwarded and accumulated

HasDelta(c) == IsSome(c.content) /\ Unwrap(c.content) # <<>>

\* deepseek_stream.next() yields Ok(chunk): one turn of the loop.  A
\* non-empty delta is sent and accumulated, then the usage is tracked
ANextStep(c) ==
    /\ pc = "aNext"
    /\ aText' = aText \o unwrap_or(c.content, <<>>)
    /\ aSeen' = Seen(aSeen, c)
    /\ aYielded' = (aYielded \/ HasDelta(c))
    /\ IF HasDelta(c)
       THEN /\ Send(ContentEvent("text_delta", Unwrap(c.content)))
            /\ complete_reasoning' = complete_reasoning \o Unwrap(c.content)
       ELSE UNCHANGED <<sent, chan, rxAlive, complete_reasoning>>
    /\ deepseek_usage' = TrackDeepseekUsage(deepseek_usage, c)
    /\ aCount' = aCount + 1
    /\ UNCHANGED <<sessVars, request, consVars, pc, messages, callsA, callsB, anthropic_messages,
                   txDropped, bCount, total_content, anthropic_input_tokens,
                   anthropic_output_tokens, bText, bSeen, bBelow, failure,
                   bYielded, response>>

\* the stream yields any element, at most MaxChunks of them
ANextOk ==
    /\ aCount < MaxChunks
    /\ \E c \in Chunks : ANextStep(c)

\* mutant: backend A's error is swallowed and the pipeline goes on
ANextErr_Swallow ==
    /\ pc = "aNext"
    /\ pc' = "closeTag"
    /\ failure' = "DeepSeek"
    /\ UNCHANGED <<sessVars, request, consVars, messages, callsA, callsB, anthropic_messages, chanVars,
                   taskVars, aText, bText, aSeen, bSeen, bBelow, aYielded,
                   bYielded, response>>

\* deepseek_stream.next() yields Err(e)
ANextErr ==
    /\ pc = "aNext"
    /\ pc' = "aErr"
    /\ failure' = "DeepSeek"
    /\ UNCHANGED <<sessVars, request, consVars, messages, callsA, callsB, anthropic_messages, chanVars,
                   taskVars, aText, bText, aSeen, bSeen, bBelow, aYielded,
                   bYielded, response>>

\* mutant: the `return` after backend A's error event is missing
SendAErr_NoReturn ==
    /\ pc = "aErr"
    /\ Send(ErrorEvent("DeepSeek"))
    /\ pc' = "closeTag"
    /\ UNCHANGED <<sessVars, request, consVars, messages, callsA, callsB, anthropic_messages, txDropped,
                   taskVars, histVars, response>>

\* send `error` and return: the task ends and tx is dropped
SendAErr ==
    /\ pc = "aErr"
    /\ Send(ErrorEvent("DeepSeek"))
    /\ txDropped' = TRUE
    /\ pc' = "closed"
    /\ UNCHANGED <<sessVars, request, consVars, messages, callsA, callsB, anthropic_messages, taskVars,
                   histVars, response>>

\* deepseek_stream.next() yields None
ANextEnd ==
    /\ pc = "aNext"
    /\ pc' = "closeTag"
    /\ UNCHANGED <<sessVars, request, consVars, messages, callsA, callsB, anthropic_messages, chanVars,
                   taskVars, histVars, response>>

\* mutant: the reasoning is pushed without the thinking wrapper
AnthropicMessages_Raw(msgs, reasoning) ==
    Append(msgs, Msg("assistant", reasoning))

\* the assistant turn pushed onto the conversation for backend B
AnthropicMessages(msgs, reasoning) ==
    Append(msgs, Msg("assistant", ThinkingContent(reasoning)))

\* mutant: the closing tag is not sent
SendCloseTag_NoTag ==
    /\ pc = "closeTag"
    /\ anthropic_messages' = Some(AnthropicMessages(messages, complete_reasoning))
    /\ callsB' = callsB + 1
    /\ total_content' = <<>>
    /\ anthropic_input_tokens' = 0
    /\ anthropic_output_tokens' = 0
    /\ pc' = "bNext"
    /\ UNCHANGED <<sessVars, sent, chan, rxAlive, request, consVars, messages, callsA, txDropped, aCount, bCount,
                   complete_reasoning, deepseek_usage, histVars, response>>

\* send the closing tag, then create backend B's stream
SendCloseTag ==
    /\ pc = "closeTag"
    /\ Send(ContentEvent("text", CloseTag))
    /\ anthropic_messages' = Some(AnthropicMessages(messages, complete_reasoning))
    /\ callsB' = callsB + 1
    /\ total_content' = <<>>
    /\ anthropic_input_tokens' = 0
    /\ anthropic_output_tokens' = 0
    /\ pc' = "bNext"
    /\ UNCHANGED <<sessVars, request, consVars, messages, callsA, txDropped, aCount, bCount,
                   complete_reasoning, deepseek_usage, histVars, response>>

\* mutant: the latest snapshot replaces the tracked counts
TrackAnthropicUsage_Last(old, c) ==
    IF IsSome(c.usage)
    THEN << Unwrap(c.usage).prompt_tokens, Unwrap(c.usage).completion_tokens >>
    ELSE old

\* what the task keeps of backend B's usage after a chunk: <<input, output>>
TrackAnthropicUsage(old, c) ==
    IF IsSome(c.usage)
    THEN << Max(Unwrap(c.usage).prompt_tokens, old[1]),
            Max(Unwrap(c.usage).completion_tokens, old[2]) >>
    ELSE old

\* anthropic_stream.next() yields Ok(chunk): one turn of the loop.  A
\* non-empty delta is sent and accumulated, then the usage is tracked
BNextStep(c) ==
    /\ pc = "bNext"
    /\ bText' = bText \o unwrap_or(c.content, <<>>)
    /\ bSeen' = Seen(bSeen, c)
    /\ bYielded' = (bYielded \/ HasDelta(c))
    /\ bBelow' = (bBelow \/ (IsSome(c.usage) /\
                       (\/ Unwrap(c.usage).prompt_tokens < bSeen[1]
                        \/ Unwrap(c.usage).completion_tokens < bSeen[2])))
    /\ IF HasDelta(c)
       THEN /\ Send(ContentEvent("text_delta", Unwrap(c.content)))
            /\ total_content' = total_content \o Unwrap(c.content)
       ELSE UNCHANGED <<sent, chan, rxAlive, total_content>>
    /\ LET t == TrackAnthropicUsage(
                    <<anthropic_input_tokens, anthropic_output_tokens>>, c)
       IN  /\ anthropic_input_tokens' = t[1]
           /\ anthropic_output_tokens' = t[2]
    /\ bCount' = bCount + 1
    /\ UNCHANGED <<sessVars, request, consVars, pc, messages, callsA, callsB, anthropic_messages,
                   txDropped, aCount, complete_reasoning, deepseek_usage,
                   aText, aSeen, failure, aYielded, response>>

\* the stream yields any element, at most MaxChunks of them
BNextOk ==
    /\ bCount < MaxChunks
    /\ \E c \in Chunks : BNextStep(c)

\* anthropic_stream.next() yields Err(e)
BNextErr ==
    /\ pc = "bNext"
    /\ pc' = "bErr"
    /\ failure' = "Anthropic"
    /\ UNCHANGED <<sessVars, request, consVars, messages, callsA, callsB, anthropic_messages, chanVars,
                   taskVars, aText, bText, aSeen, bSeen, bBelow, aYielded,
                   bYielded, response>>

\* mutant: the `return` after backend B's error event is missing
SendBErr_NoReturn ==
    /\ pc = "bErr"
    /\ Send(ErrorEvent("Anthropic"))
    /\ pc' = "bDone"
    /\ UNCHANGED <<sessVars, request, consVars, messages, callsA, callsB, anthropic_messages, txDropped,
                   taskVars, histVars, response>>

\* send `error` and return: the task ends and tx is dropped
SendBErr ==
    /\ pc = "bErr"
    /\ Send(ErrorEvent("Anthropic"))
    /\ txDropped' = TRUE
    /\ pc' = "closed"
    /\ UNCHANGED <<sessVars, request, consVars, messages, callsA, callsB, anthropic_messages, taskVars,
                   histVars, response>>

\* anthropic_stream.next() yields None
BNextEnd ==
    /\ pc = "bNext"
    /\ pc' = "bDone"
    /\ UNCHANGED <<sessVars, request, consVars, messages, callsA, callsB, anthropic_messages, chanVars,
                   taskVars, histVars, response>>

\* DeepSeekUsage of the `usage` event
StreamDeepSeekUsage(u) ==
    [input_tokens |-> u.prompt_tokens,
     output_tokens |-> u.completion_tokens,
     total_tokens |-> u.total_tokens]

\* AnthropicUsage of the `usage` event
StreamAnthropicUsage(i, o) ==
    [input_tokens |-> i, output_tokens |-> o, total_tokens |-> i + o]

\* the `usage` event is sent only when backend A reported a usage
SendsUsage(du) == IsSome(du)

\* mutant: the `usage` event is never sent
Finalize_NoUsage ==
    /\ pc = "bDone"
    /\ pc' = "done"
    /\ UNCHANGED <<sessVars, request, consVars, messages, callsA, callsB, anthropic_messages, chanVars,
                   taskVars, histVars, response>>

\* calculate final usage and send the `usage` event
Finalize ==
    /\ pc = "bDone"
    /\ IF SendsUsage(deepseek_usage)
       THEN \E k \in CostStrings(
                        calculate_deepseek_cost(
                            Unwrap(deepseek_usage).prompt_tokens,
                            Unwrap(deepseek_usage).completion_tokens,
                            Config),
                        calculate_anthropic_cost(
                            anthropic_input_tokens,
                            anthropic_output_tokens, Config)) :
                Send(UsageEvent(
                       StreamDeepSeekUsage(Unwrap(deepseek_usage)),
                       StreamAnthropicUsage(anthropic_input_tokens,
                                            anthropic_output_tokens),
                       k))
       ELSE UNCHANGED <<sent, chan, rxAlive>>
    /\ pc' = "done"
    /\ UNCHANGED <<sessVars, request, consVars, messages, callsA, callsB, anthropic_messages, txDropped,
                   taskVars, histVars, response>>

\* mutant: the task ends but a sender stays alive
SendDone_KeepsSender ==
    /\ pc = "done"
    /\ Send(DoneEvent)
    /\ txDropped' = FALSE
    /\ pc' = "closed"
    /\ UNCHANGED <<sessVars, request, consVars, messages, callsA, callsB, anthropic_messages, taskVars,
                   histVars, response>>

\* send `done`; the task ends and tx is dropped
SendDone ==
    /\ pc = "done"
    /\ Send(DoneEvent)
    /\ txDropped' = TRUE
    /\ pc' = "closed"
    /\ UNCHANGED <<sessVars, request, consVars, messages, callsA, callsB, anthropic_messages, taskVars,
                   histVars, response>>

\* ------------------------------------------------------------------ chat

\* what DeepSeekClient::chat returns: Err, or a response with
\* choices.first().message.content and usage
DeepSeekResponses ==
    [ok : {FALSE}, content : {NoneOpt}, usage : {CHOOSE u \in Usages : TRUE}]
    \cup [ok : {TRUE},
          content : {NoneOpt} \cup {Some(t) : t \in Texts},
          usage : Usages]

\* what AnthropicClient::chat returns; its usage also carries the optional
\* input_tokens / output_tokens
AnthropicResponses ==
    [ok : {FALSE}, content : {NoneOpt}, usage : {CHOOSE u \in Usages : TRUE},
     input_tokens : {NoneOpt}, output_tokens : {NoneOpt}]
    \cup [ok : {TRUE},
          content : {NoneOpt} \cup {Some(t) : t \in Texts},
          usage : Usages,
          input_tokens : {NoneOpt} \cup {Some(t) : t \in PromptTokens},
          output_tokens : {NoneOpt} \cup {Some(t) : t \in CompletionTokens}]

ContentBlock(k, x) == [content_type |-> k, text |-> x]

\* mutant: the first block carries the reasoning without the wrapper
ChatContent_Raw(reasoning, answer) ==
    << ContentBlock("text", reasoning), ContentBlock("text", answer) >>

\* the content vector of the batched response
ChatContent(reasoning, answer) ==
    << ContentBlock("text", ThinkingContent(reasoning)),
       ContentBlock("text", answer) >>

\* mutant: backend B's error is dropped and the thinking block is returned
\* with an empty answer
ChatBody_PartialOnError(msgs, a, b) ==
    IF ~a.ok
    THEN [ret |-> ErrResponse("DeepSeekError", "backend"),
          callsB |-> 0, anthropic_messages |-> NoneOpt]
    ELSE IF ~IsSome(a.content)
    THEN [ret |-> ErrResponse("DeepSeekError", "missing_content"),
          callsB |-> 0, anthropic_messages |-> NoneOpt]
    ELSE IF ~b.ok
    THEN [ret |-> OkResponse(ChatContent(Unwrap(a.content), <<>>),
                             NoUsage, NoUsage),
          callsB |-> 1,
          anthropic_messages |->
              Some(AnthropicMessages(msgs, Unwrap(a.content)))]
    ELSE [ret |-> ErrResponse("AnthropicError", "missing_content"),
          callsB |-> 1,
          anthropic_messages |->
              Some(AnthropicMessages(msgs, Unwrap(a.content)))]

\* the handler after its checks, given what the two clients return:
\* the value returned, the calls made to backend B and what B was given
ChatBody(msgs, a, b) ==
    IF ~a.ok
    THEN [ret |-> ErrResponse("DeepSeekError", "backend"),
          callsB |-> 0, anthropic_messages |-> NoneOpt]
    ELSE IF ~IsSome(a.content)
    THEN [ret |-> ErrResponse("DeepSeekError", "missing_content"),
          callsB |-> 0, anthropic_messages |-> NoneOpt]
    ELSE IF ~b.ok
    THEN [ret |-> ErrResponse("AnthropicError", "backend"),
          callsB |-> 1,
          anthropic_messages |->
              Some(AnthropicMessages(msgs, Unwrap(a.content)))]
    ELSE IF ~IsSome(b.content)
    THEN [ret |-> ErrResponse("AnthropicError", "missing_content"),
          callsB |-> 1,
          anthropic_messages |->
              Some(AnthropicMessages(msgs, Unwrap(a.content)))]
    ELSE [ret |-> OkResponse(
                      ChatContent(Unwrap(a.content), Unwrap(b.content)),
                      [input_tokens |-> a.usage.prompt_tokens,
                       output_tokens |-> a.usage.completion_tokens,
                       total_tokens |-> a.usage.total_tokens],
                      [input_tokens |-> unwrap_or(b.input_tokens, 0),
                       output_tokens |-> unwrap_or(b.output_tokens, 0),
                       total_tokens |-> b.usage.total_tokens]),
          callsB |-> 1,
          anthropic_messages |->
              Some(AnthropicMessages(msgs, Unwrap(a.content)))]

\* rejected by the checks: no client is created
ChatReject ==
    /\ pc = "idle"
    /\ \E validPrompt \in BOOLEAN, header \in Headers :
          /\ Precheck(validPrompt, header) # "Ok"
          /\ request' = Some(Request(validPrompt, header))
          /\ response' = Some(ErrResponse(Precheck(validPrompt, header), ""))
    /\ pc' = "returned"
    /\ UNCHANGED <<sessVars, consVars, messages, callsA, callsB, anthropic_messages, chanVars,
                   taskVars, histVars>>

\* the batched handler, from the DeepSeek call to its return
Chat ==
    /\ pc = "idle"
    /\ \E validPrompt \in BOOLEAN, header \in Headers :
          /\ Precheck(validPrompt, header) = "Ok"
          /\ request' = Some(Request(validPrompt, header))
    /\ \E a \in DeepSeekResponses, b \in AnthropicResponses :
          LET r == ChatBody(messages, a, b)
          IN  /\ callsA' = callsA + 1
              /\ callsB' = callsB + r.callsB
              /\ anthropic_messages' = r.anthropic_messages
              /\ IF r.ret.status = "ok"
                 THEN \E k \in CostStrings(
                                  calculate_deepseek_cost(
                                      a.usage.prompt_tokens,
                                      a.usage.completion_tokens, Config),
                                  calculate_anthropic_cost(
                                      b.usage.prompt_tokens,
                                      b.usage.completion_tokens, Config)) :
                          response' = Some([r.ret EXCEPT !.cost = k])
                 ELSE response' = Some(r.ret)
              /\ aSeen' = IF ~a.ok THEN aSeen
                          ELSE <<a.usage.prompt_tokens,
                                 a.usage.completion_tokens>>
              /\ bSeen' = IF r.callsB = 0 \/ ~b.ok THEN bSeen
                          ELSE <<b.usage.prompt_tokens,
                                 b.usage.completion_tokens>>
              /\ aText' = unwrap_or(a.content, <<>>)
              /\ bText' = IF r.callsB = 0 THEN bText
                          ELSE unwrap_or(b.content, <<>>)
              /\ aYielded' = IsSome(a.content)
              /\ bYielded' = (r.callsB = 1 /\ IsSome(b.content))
              /\ failure' = IF ~a.ok THEN "DeepSeek"
                            ELSE IF r.callsB = 1 /\ ~b.ok THEN "Anthropic"
                            ELSE failure
    /\ pc' = "returned"
    /\ UNCHANGED <<sessVars, consVars, messages, chanVars, taskVars, bBelow>>

\* ------------------------------------------------------- specification
Next ==
    \/ ChatReject
    \/ Chat
    \/ ChatStreamReject
    \/ ChatStreamSpawn
    \/ SendStart
    \/ SendOpenTag
    \/ ANextOk
    \/ ANextErr
    \/ SendAErr
    \/ ANextEnd
    \/ SendCloseTag
    \/ BNextOk
    \/ BNextErr
    \/ SendBErr
    \/ BNextEnd
    \/ Finalize
    \/ SendDone

Spec == Init /\ [][Next]_vars

\* ------------------------------------------- the consumer of the channel
\* ReceiverStream polls rx: the oldest pending event is handed to the client
Recv_Newest ==
    /\ rxAlive
    /\ chan # <<>>
    /\ received' = Append(received, chan[Len(chan)])
    /\ chan' = SubSeq(chan, 1, Len(chan) - 1)
    /\ UNCHANGED <<sessVars, pc, messages, callsA, callsB, anthropic_messages, sent,
                   rxAlive, txDropped, taskVars, histVars, response, request,
                   rxDone, dropEarly>>

Recv ==
    /\ rxAlive
    /\ chan # <<>>
    /\ received' = Append(received, Head(chan))
    /\ chan' = Tail(chan)
    /\ UNCHANGED <<sessVars, pc, messages, callsA, callsB, anthropic_messages, sent,
                   rxAlive, txDropped, taskVars, histVars, response, request,
                   rxDone, dropEarly>>

\* rx yields None: the channel is empty and every sender is gone
RecvEnd ==
    /\ rxAlive
    /\ ~rxDone
    /\ chan = <<>>
    /\ txDropped
    /\ rxDone' = TRUE
    /\ UNCHANGED <<sessVars, pc, messages, callsA, callsB, anthropic_messages, chanVars,
                   taskVars, histVars, response, request, received,
                   dropEarly>>

\* the client goes away: the response body and rx with it are dropped, and
\* what was pending is discarded
Disconnect ==
    /\ pc \in {"start", "openTag", "aNext", "aErr", "closeTag", "bNext",
               "bErr", "bDone", "done", "closed"}
    /\ rxAlive
    /\ ~rxDone
    /\ rxAlive' = FALSE
    /\ chan' = <<>>
    /\ dropEarly' = (callsB = 0)
    /\ UNCHANGED <<sessVars, pc, messages, callsA, callsB, anthropic_messages, sent,
                   txDropped, taskVars, histVars, response, request,
                   received, rxDone>>

\* a long backend A stream: LongLen deltas, alternating, each with usage
ScriptA(i) ==
    [content |-> Some(<<IF i % 2 = 1 THEN "a" ELSE "b">>),
     usage   |-> Some([prompt_tokens |-> 100, completion_tokens |-> 50,
                       total_tokens |-> 150])]

\* a short backend B stream: MaxChunks deltas
ScriptB(i) ==
    [content |-> Some(<<IF i % 2 = 1 THEN "b" ELSE "a">>),
     usage   |-> NoneOpt]

AScriptOk ==
    /\ aCount < LongLen
    /\ ANextStep(ScriptA(aCount + 1))

AScriptEnd ==
    /\ aCount = LongLen
    /\ ANextEnd

BScriptOk ==
    /\ bCount < MaxChunks
    /\ BNextStep(ScriptB(bCount + 1))

BScriptEnd ==
    /\ bCount = MaxChunks
    /\ BNextEnd

\* the steps of the spawned task
ProducerNext ==
    \/ SendStart
    \/ SendOpenTag
    \/ AScriptOk
    \/ ANextErr
    \/ SendAErr
    \/ AScriptEnd
    \/ SendCloseTag
    \/ BScriptOk
    \/ BNextErr
    \/ SendBErr
    \/ BScriptEnd
    \/ Finalize
    \/ SendDone

NextChan ==
    \/ ChatStreamSpawn
    \/ ProducerNext
    \/ Recv
    \/ RecvEnd
    \/ Disconnect

\* one streaming session over long streams, with its consumer
SpecChan == Init /\ [][NextChan]_vars

\* the same session over a short backend A stream of MaxChunks deltas
AShortOk ==
    /\ aCount < MaxChunks
    /\ ANextStep(ScriptA(aCount + 1))

AShortEnd ==
    /\ aCount = MaxChunks
    /\ ANextEnd

ProducerShort ==
    \/ SendStart
    \/ SendOpenTag
    \/ AShortOk
    \/ ANextErr
    \/ SendAErr
    \/ AShortEnd
    \/ SendCloseTag
    \/ BScriptOk
    \/ BNextErr
    \/ SendBErr
    \/ BScriptEnd
    \/ Finalize
    \/ SendDone

NextShort ==
    \/ ChatStreamSpawn
    \/ ProducerShort
    \/ Recv
    \/ RecvEnd
    \/ Disconnect

\* the runtime schedules the task and the consumer keeps polling; nothing
\* obliges the client to disconnect
FairSpecShort ==
    /\ Init
    /\ [][NextShort]_vars
    /\ WF_vars(ProducerShort)
    /\ WF_vars(Recv)
    /\ WF_vars(RecvEnd)

\* ----------------------------------------------------- event sequences
StreamPcs == {"start", "openTag", "aNext", "aErr", "closeTag", "bNext",
              "bErr", "bDone", "done", "closed"}

\* ------------------------------------------------- two sessions at once
\* what the backends stream to a session: session 1 gets "a" deltas and
\* session 2 gets "b" deltas, with different usages
ScriptTwo(s) ==
    [content |-> Some(<<IF s = 1 THEN "a" ELSE "b">>),
     usage   |-> Some([prompt_tokens |-> IF s = 1 THEN 90 ELSE 100,
                       completion_tokens |-> IF s = 1 THEN 50 ELSE 80,
                       total_tokens |-> IF s = 1 THEN 140 ELSE 180])]

ATwoOk ==
    /\ aCount < MaxChunks
    /\ ANextStep(ScriptTwo(turn))

BTwoOk ==
    /\ bCount < MaxChunks
    /\ BNextStep(ScriptTwo(turn))

\* mutant: the two tasks accumulate the reasoning in one shared buffer
Switch_SharedReasoning ==
    /\ turn' = 3 - turn
    /\ other' = [Session EXCEPT !.complete_reasoning = other.complete_reasoning]
    /\ pc' = other.pc
    /\ messages' = other.messages
    /\ callsA' = other.callsA
    /\ callsB' = other.callsB
    /\ anthropic_messages' = other.anthropic_messages
    /\ sent' = other.sent
    /\ chan' = other.chan
    /\ rxAlive' = other.rxAlive
    /\ txDropped' = other.txDropped
    /\ aCount' = other.aCount
    /\ bCount' = other.bCount
    /\ complete_reasoning' = complete_reasoning
    /\ deepseek_usage' = other.deepseek_usage
    /\ total_content' = other.total_content
    /\ anthropic_input_tokens' = other.anthropic_input_tokens
    /\ anthropic_output_tokens' = other.anthropic_output_tokens
    /\ aText' = other.aText
    /\ bText' = other.bText
    /\ aSeen' = other.aSeen
    /\ bSeen' = other.bSeen
    /\ bBelow' = other.bBelow
    /\ failure' = other.failure
    /\ aYielded' = other.aYielded
    /\ bYielded' = other.bYielded
    /\ response' = other.response
    /\ request' = other.request
    /\ received' = other.received
    /\ rxDone' = other.rxDone
    /\ dropEarly' = other.dropEarly

\* the runtime stops running one session's task or consumer and runs the
\* other session's: each keeps its own locals and its own channel
Switch ==
    /\ turn' = 3 - turn
    /\ other' = Session
    /\ pc' = other.pc
    /\ messages' = other.messages
    /\ callsA' = other.callsA
    /\ callsB' = other.callsB
    /\ anthropic_messages' = other.anthropic_messages
    /\ sent' = other.sent
    /\ chan' = other.chan
    /\ rxAlive' = other.rxAlive
    /\ txDropped' = other.txDropped
    /\ aCount' = other.aCount
    /\ bCount' = other.bCount
    /\ complete_reasoning' = other.complete_reasoning
    /\ deepseek_usage' = other.deepseek_usage
    /\ total_content' = other.total_content
    /\ anthropic_input_tokens' = other.anthropic_input_tokens
    /\ anthropic_output_tokens' = other.anthropic_output_tokens
    /\ aText' = other.aText
    /\ bText' = other.bText
    /\ aSeen' = other.aSeen
    /\ bSeen' = other.bSeen
    /\ bBelow' = other.bBelow
    /\ failure' = other.failure
    /\ aYielded' = other.aYielded
    /\ bYielded' = other.bYielded
    /\ response' = other.response
    /\ request' = other.request
    /\ received' = other.received
    /\ rxDone' = other.rxDone
    /\ dropEarly' = other.dropEarly

NextTwo ==
    \/ ChatStreamSpawn
    \/ SendStart
    \/ SendOpenTag
    \/ ATwoOk
    \/ ANextErr
    \/ SendAErr
    \/ AShortEnd
    \/ SendCloseTag
    \/ BTwoOk
    \/ BNextErr
    \/ SendBErr
    \/ BScriptEnd
    \/ Finalize
    \/ SendDone
    \/ Recv
    \/ RecvEnd
    \/ Switch

\* two streaming sessions, interleaved in every way
SpecTwo == Init /\ [][NextTwo]_vars

Positions(evs, types) == {i \in 1..Len(evs) : evs[i].type \in types}

\* ------------------------------------------------------------------- C1
\* C1: in every streaming session the events the task emits hold exactly one
\* `start`, which is the first event, and at most one terminal event (`done`
\* or `error`), which is then the last event emitted; a finished task has
\* emitted exactly one terminal event, and nothing follows it.
C1_StartFirstTerminalLast ==
    /\ sent # <<>> => Positions(sent, {"start"}) = {1}
    /\ Positions(sent, {"done", "error"}) \subseteq {Len(sent)}
    /\ Cardinality(Positions(sent, {"done", "error"})) <= 1
    /\ pc \in StreamPcs \ {"start"} => sent # <<>>
    /\ pc = "closed" => Positions(sent, {"done", "error"}) = {Len(sent)}
    /\ pc \in StreamPcs \ {"closed"} => Positions(sent, {"done", "error"}) = {}

\* a session that ended with `error` after backend B had already streamed
C1_Witness ==
    /\ pc = "closed"
    /\ sent[Len(sent)].type = "error"
    /\ callsB = 1
    /\ bText # <<>>

\* ------------------------------------------------------------------- C2
\* backend A's call has completed without an error
ACompleted ==
    /\ failure # "DeepSeek"
    /\ \/ pc = "returned" /\ callsA = 1
       \/ pc \in {"closeTag", "bNext", "bErr", "bDone", "done", "closed"}

\* C2: in either mode, when backend A's call completes having yielded no
\* content, backend B is never invoked and the session fails with backend
\* A's missing-content error (batched: the value returned; streaming: the
\* terminal `error` event).
C2_EmptyAStopsPipeline ==
    (ACompleted /\ ~aYielded) =>
        /\ callsB = 0
        /\ pc = "returned" =>
               Unwrap(response).error = <<"DeepSeekError", "missing_content">>
        /\ pc = "closed" =>
               /\ sent[Len(sent)].type = "error"
               /\ sent[Len(sent)].kind = "DeepSeek"

\* ------------------------------------------------------------------- C3
\* C3: whenever backend B has been invoked, in either mode, the message list
\* it was given is the original conversation, unchanged and in order,
\* followed by exactly one assistant turn whose content is the opening tag,
\* then everything backend A produced (in streaming: all its deltas up to
\* exhaustion, in order), then the closing tag; before that no list exists.
C3_BackendBInput ==
    /\ callsB = 0 => anthropic_messages = NoneOpt
    /\ callsB > 0 =>
          /\ IsSome(anthropic_messages)
          /\ LET m == Unwrap(anthropic_messages)
                 n == Len(messages)
             IN  /\ Len(m) = n + 1
                 /\ \A i \in 1..n : m[i] = messages[i]
                 /\ m[n + 1].role = "assistant"
                 /\ m[n + 1].content =
                        <<"<thinking>", "\n">> \o aText \o <<"\n", "</thinking>">>

\* backend B's stream was opened after backend A streamed two different
\* deltas, on the longer conversation
C3_Witness ==
    /\ pc = "bNext"
    /\ callsB = 1
    /\ Len(messages) > 1
    /\ Len(aText) = 2
    /\ aText[1] # aText[2]

\* ------------------------------------------------------------------- C4
\* the state of a streaming session, by the position of its task
PhaseOf(p) ==
    CASE p \in {"idle", "start"} -> "Idle"
      [] p \in {"openTag", "aNext"} -> "BackendA-Running"
      [] p = "closeTag" -> "BackendA-Done"
      [] p = "bNext" -> "BackendB-Running"
      [] p = "bDone" -> "BackendB-Done"
      [] p = "done" -> "Finalizing"
      [] p \in {"aErr", "bErr"} -> "Error"
      [] p = "closed" -> "Closed"
      [] OTHER -> "None"

PhaseEdges ==
    { <<"Idle", "BackendA-Running">>,
      <<"BackendA-Running", "BackendA-Done">>,
      <<"BackendA-Done", "BackendB-Running">>,
      <<"BackendB-Running", "BackendB-Done">>,
      <<"BackendB-Done", "Finalizing">>,
      <<"Finalizing", "Closed">>,
      <<"BackendA-Running", "Error">>,
      <<"BackendB-Running", "Error">>,
      <<"Error", "Closed">> }

C4_Step ==
    pc' \in StreamPcs =>
        /\ \/ PhaseOf(pc') = PhaseOf(pc)
           \/ <<PhaseOf(pc), PhaseOf(pc')>> \in PhaseEdges
        /\ callsA' <= 1 /\ callsB' <= 1
        /\ callsA' # callsA =>
               <<PhaseOf(pc), PhaseOf(pc')>> = <<"Idle", "BackendA-Running">>
        /\ callsB' # callsB =>
               <<PhaseOf(pc), PhaseOf(pc')>> =
                   <<"BackendA-Done", "BackendB-Running">>

\* C4: every step of a streaming session stays in its state or follows one
\* edge of Idle -> BackendA-Running -> BackendA-Done -> BackendB-Running ->
\* BackendB-Done -> Finalizing -> Closed, or enters Error from a Running
\* state, or leaves Error for Closed; backend A is invoked once, on leaving
\* Idle, and backend B at most once, on leaving BackendA-Done.
C4_LinearPhases == [][C4_Step]_vars

\* a session that went through every state up to Closed without an error
C4_Witness ==
    /\ pc = "closed"
    /\ failure = "none"
    /\ callsA = 1 /\ callsB = 1
    /\ sent[Len(sent)].type = "done"

\* ------------------------------------------------------------------- C5
\* the texts of the blocks of the `content` events, joined in emission order
RECURSIVE StreamedText(_)
StreamedText(evs) ==
    IF evs = <<>> THEN <<>>
    ELSE (IF Head(evs).type = "content" THEN Head(evs).text ELSE <<>>)
         \o StreamedText(Tail(evs))

\* the texts of the content blocks of a batched response, joined in order
RECURSIVE BlocksText(_)
BlocksText(blocks) ==
    IF blocks = <<>> THEN <<>>
    ELSE Head(blocks).text \o BlocksText(Tail(blocks))

\* what `chat` returns when the two backends answer with the given texts
BatchedFor(reasoning, answer) ==
    ChatBody(messages,
             [ok |-> TRUE, content |-> Some(reasoning),
              usage |-> CHOOSE u \in Usages : TRUE],
             [ok |-> TRUE, content |-> Some(answer),
              usage |-> CHOOSE u \in Usages : TRUE,
              input_tokens |-> NoneOpt, output_tokens |-> NoneOpt]).ret

\* C5: when a streaming session has ended with `done`, the texts of its
\* `content` events joined in emission order equal the texts of the content
\* blocks of the batched response for the same backend outputs (backend A
\* answering with all its deltas joined, backend B likewise), however the
\* outputs were cut into chunks.
C5_StreamEqualsBatched ==
    (pc = "closed" /\ failure = "none") =>
        /\ BatchedFor(aText, bText).status = "ok"
        /\ StreamedText(sent) = BlocksText(BatchedFor(aText, bText).content)

\* both backends streamed two deltas each, backend A two different ones
C5_Witness ==
    /\ pc = "closed"
    /\ failure = "none"
    /\ Len(aText) = 2 /\ aText[1] # aText[2]
    /\ Len(bText) = 2

\* ------------------------------------------------------------------- C6
C6_Step ==
    /\ anthropic_input_tokens' >= anthropic_input_tokens
    /\ anthropic_output_tokens' >= anthropic_output_tokens
    /\ pc' \in StreamPcs =>
          <<anthropic_input_tokens', anthropic_output_tokens'>> = bSeen'
    /\ \A i \in Positions(sent', {"usage"}) :
          /\ sent'[i].anthropic_usage.input_tokens = bSeen'[1]
          /\ sent'[i].anthropic_usage.output_tokens = bSeen'[2]

\* C6: in a streaming session the tracked backend-B input and output token
\* counts never decrease, after every chunk they are the field-wise maximum
\* of the backend-B snapshots observed so far, and the `usage` event reports
\* the field-wise maximum of all of them.
C6_AnthropicWatermark == [][C6_Step]_vars

\* a `usage` event reporting (100, 80) after a later snapshot fell below an
\* earlier one
C6_Witness ==
    /\ Positions(sent, {"usage"}) # {}
    /\ bBelow
    /\ bSeen = <<100, 80>>

\* ------------------------------------------------------------------- C7
C7_Step ==
    /\ IsSome(deepseek_usage) =>
          /\ IsSome(deepseek_usage')
          /\ Unwrap(deepseek_usage').prompt_tokens >=
                 Unwrap(deepseek_usage).prompt_tokens
          /\ Unwrap(deepseek_usage').completion_tokens >=
                 Unwrap(deepseek_usage).completion_tokens
          /\ Unwrap(deepseek_usage').total_tokens >=
                 Unwrap(deepseek_usage).total_tokens
    /\ \A i \in Positions(sent', {"usage"}) :
          /\ sent'[i].deepseek_usage.input_tokens = aSeen'[1]
          /\ sent'[i].deepseek_usage.output_tokens = aSeen'[2]

\* C7: in a streaming session the backend-A usage the task keeps never
\* decreases in any field, and the `usage` event reports the field-wise
\* maximum of all backend-A snapshots observed.
C7_DeepSeekWatermark == [][C7_Step]_vars

\* ------------------------------------------------------------------- C8
\* C8: in a streaming session, once a backend stream has yielded an error
\* the task emits nothing but one `error` event, which names that backend
\* and is the last event, and then ends, closing the channel; a session
\* whose last event is `error` holds no `usage` and no `done` event.
C8_FailureEndsWithError ==
    /\ (failure # "none" /\ pc \in StreamPcs) =>
          /\ pc \in {"aErr", "bErr", "closed"}
          /\ Positions(sent, {"usage", "done"}) = {}
          /\ pc = "closed" =>
                /\ Positions(sent, {"error"}) = {Len(sent)}
                /\ sent[Len(sent)].kind = failure
                /\ txDropped
          /\ pc # "closed" =>
                /\ Positions(sent, {"error"}) = {}
                /\ ~txDropped
    /\ Positions(sent, {"error"}) # {} =>
          /\ failure # "none"
          /\ pc = "closed"

\* backend A failed after it had streamed content and reported usage
C8_Witness ==
    /\ pc = "closed"
    /\ failure = "DeepSeek"
    /\ aText # <<>>
    /\ IsSome(deepseek_usage)

\* ------------------------------------------------------------------- C9
\* backend B's call has completed without an error
BCompleted ==
    /\ failure = "none"
    /\ callsB = 1
    /\ pc \in {"returned", "bDone", "done", "closed"}

\* C9: when backend B's call completes having yielded no content, the
\* session fails with backend B's missing-content error: `chat` returns it
\* with no payload, and a streaming session emits no `done` and ends with a
\* terminal `error` event.
C9_EmptyBFails ==
    (BCompleted /\ ~bYielded) =>
        /\ pc = "returned" =>
              /\ Unwrap(response).status = "err"
              /\ Unwrap(response).error =
                     <<"AnthropicError", "missing_content">>
              /\ Unwrap(response).content = <<>>
        /\ Positions(sent, {"done"}) = {}
        /\ pc = "closed" => sent[Len(sent)].type = "error"

C11_BatchedErrorNoPayload ==
    (pc = "returned" /\ failure # "none") =>
        /\ Unwrap(response).status = "err"
        /\ Unwrap(response).error =
               <<IF failure = "DeepSeek" THEN "DeepSeekError"
                 ELSE "AnthropicError", "backend">>
        /\ Unwrap(response).content = <<>>
        /\ Unwrap(response).deepseek_usage = NoUsage
        /\ Unwrap(response).anthropic_usage = NoUsage
        /\ failure = "DeepSeek" =>
               /\ callsB = 0
               /\ anthropic_messages = NoneOpt
        /\ failure = "Anthropic" => callsA = 1 /\ callsB = 1

\* backend B failed after backend A had answered with content
C11_Witness ==
    /\ pc = "returned"
    /\ failure = "Anthropic"
    /\ aText # <<>>
    /\ callsB = 1

\* ------------------------------------------------------------------ C12
\* the request fails one of the handler's checks
BadRequest ==
    /\ IsSome(request)
    /\ \/ ~Unwrap(request).validPrompt
       \/ Unwrap(request).header # "token"

\* C12: a request with an invalid system prompt or with a missing or
\* malformed credential header is answered at once with the matching error
\* and without any backend call; in streaming mode no task exists and no
\* event is ever sent for it, nothing is in the channel and nothing reaches
\* a consumer.
C12_RejectedBeforeAnyCall ==
    BadRequest =>
        /\ pc \in {"returned", "rejected"}
        /\ callsA = 0 /\ callsB = 0
        /\ anthropic_messages = NoneOpt
        /\ sent = <<>> /\ chan = <<>> /\ received = <<>>
        /\ Unwrap(response).status = "err"
        /\ Unwrap(response).error =
               << IF ~Unwrap(request).validPrompt THEN "InvalidSystemPrompt"
                  ELSE IF Unwrap(request).header = "absent"
                  THEN "MissingHeader" ELSE "BadRequest", "" >>

\* a streaming request rejected for its malformed credential header
C12_Witness ==
    /\ pc = "rejected"
    /\ IsSome(request)
    /\ Unwrap(request).validPrompt
    /\ Unwrap(request).header = "malformed"

\* ------------------------------------------------------------------ C13
IsPrefix(s, t) == Len(s) <= Len(t) /\ SubSeq(t, 1, Len(s)) = s

\* C13: in one streaming session, whatever the interleaving of the task and
\* the consumer, the events the consumer has received are a prefix of the
\* events the task has sent; while the consumer is connected the events
\* sent are exactly the received ones followed by the pending ones, in
\* order: nothing is lost, duplicated or reordered.
C13_ReceivedPrefixOfSent ==
    /\ IsPrefix(received, sent)
    /\ rxAlive => sent = received \o chan

\* the consumer has read the start, the opening tag and two different
\* deltas while more events are pending
C13_Witness ==
    /\ rxAlive
    /\ Len(received) >= 4
    /\ received[3].text # received[4].text
    /\ Len(chan) >= 2

\* ------------------------------------------------------------------ C14
\* the channel holds ChannelCapacity events and its consumer is connected
ChannelFull == rxAlive /\ Len(chan) = ChannelCapacity

\* a step taken while the channel is full: the task emits no event and
\* handles no further backend element, and the pending events stay as they
\* are unless the consumer takes the oldest one or goes away
C14_Step ==
    ChannelFull =>
        /\ sent' = sent
        /\ aCount' = aCount /\ bCount' = bCount
        /\ \/ chan' = chan
           \/ chan' = Tail(chan) /\ received' = Append(received, Head(chan))
           \/ ~rxAlive'

RanToEnd ==
    /\ aCount = LongLen
    /\ callsB = 1
    /\ IsSome(anthropic_messages)
    /\ bCount = MaxChunks
    /\ sent[Len(sent)].type = "done"

\* C15: once the consumer has disconnected, a send of the task changes
\* nothing in the channel and never waits, so the task always has a next
\* step until it ends, and it is not aborted: unless a backend fails, when
\* it ends it has read backend A's stream to its end, invoked backend B,
\* read its stream to its end and gone through the final sends.
C15_DisconnectedRunsOn ==
    /\ [](~rxAlive => (CanSend /\ chan = <<>>))
    /\ []((~rxAlive /\ pc # "closed") => ENABLED ProducerNext)
    /\ [][~rxAlive => (chan' = chan /\ received' = received)]_vars
    /\ []((~rxAlive /\ pc = "closed" /\ failure = "none") => RanToEnd)

\* the consumer left while the task was waiting on the full channel, before
\* backend B was invoked, and the task still went through the whole pipeline
C15_Witness ==
    /\ ~rxAlive
    /\ dropEarly
    /\ pc = "closed"
    /\ failure = "none"
    /\ RanToEnd
    /\ received = <<>>

\* ------------------------------------------------------------------ C18
\* C18: with finite backend streams, a scheduled task and a consumer that
\* keeps reading or disconnects, every streaming session ends: the task
\* sends its terminal event and drops the sender, and then the consumer,
\* unless it has disconnected, reads what is pending, observes the end of
\* the stream and receives nothing after it.
C18_SessionEnds ==
    /\ (pc \in StreamPcs) ~>
           (/\ pc = "closed"
            /\ txDropped
            /\ sent[Len(sent)].type \in {"done", "error"})
    /\ (pc \in StreamPcs) ~> (rxDone \/ ~rxAlive)
    /\ [](rxDone => (pc = "closed" /\ received = sent))
    /\ [][rxDone => (rxDone' /\ received' = received)]_vars

\* the consumer has read a whole successful session and seen its end
C18_Witness ==
    /\ rxDone
    /\ pc = "closed"
    /\ aCount = MaxChunks
    /\ received[Len(received)].type = "done"

\* ------------------------------------------------------------------ C16
\* backend A's and backend B's unrounded costs added, in millionths of a
\* dollar, from the token counts and the configured prices per million
ExpectedCost(a_input, a_output, b_input, b_output) ==
    a_input * Config.pricing.deepseek.input_cache_miss_price
    + a_output * Config.pricing.deepseek.output_price
    + b_input * Config.pricing.anthropic.claude_3_sonnet.input_price
    + b_output * Config.pricing.anthropic.claude_3_sonnet.output_price

\* the spec's example: $1 per million input tokens, $2 per million output
ExampleConfig ==
    [Config EXCEPT !.pricing.deepseek.input_cache_miss_price = 1,
                   !.pricing.deepseek.output_price = 2]

\* C16: in both modes the combined total cost reported is the sum of the
\* two unrounded costs rounded once to three decimals behind a `$`; each
\* cost is input tokens times the input rate (the cache-miss rate for
\* backend A) plus output tokens times the output rate, on the usage the
\* session holds for that backend at its end; 1,000,000 input tokens at
\* $1 per million plus 500,000 output tokens at $2 per million give $2.000.
C16_CombinedCost ==
    /\ \A i \in Positions(sent, {"usage"}) :
          sent[i].cost.total_cost \in
              format_cost(ExpectedCost(
                  Unwrap(deepseek_usage).prompt_tokens,
                  Unwrap(deepseek_usage).completion_tokens,
                  anthropic_input_tokens, anthropic_output_tokens))
    /\ (pc = "returned" /\ Unwrap(response).status = "ok") =>
          Unwrap(response).cost.total_cost \in
              format_cost(ExpectedCost(aSeen[1], aSeen[2],
                                       bSeen[1], bSeen[2]))
    /\ format_cost(calculate_deepseek_cost(1000000, 500000, ExampleConfig)
                   + calculate_anthropic_cost(0, 0, ExampleConfig))
           = {<<"$", "2", ".", "0", "0", "0">>}

\* a session whose combined cost differs from the sum of its two rounded
\* costs
C16_Witness ==
    /\ pc = "closed"
    /\ \E i \in Positions(sent, {"usage"}) :
          \A d \in Thousandths(calculate_deepseek_cost(
                      sent[i].deepseek_usage.input_tokens,
                      sent[i].deepseek_usage.output_tokens, Config)),
             a \in Thousandths(calculate_anthropic_cost(
                      sent[i].anthropic_usage.input_tokens,
                      sent[i].anthropic_usage.output_tokens, Config)) :
              sent[i].cost.total_cost # Render(d + a)

\* ------------------------------------------------------------------ C17
\* the positions of the content events of the given kind
KindPositions(evs, k) ==
    {i \in 1..Len(evs) : evs[i].type = "content" /\ evs[i].kind = k}

\* the position of the closing tag, 0 when it has not been sent
CloseTagAt ==
    IF \E i \in KindPositions(sent, "text") : sent[i].text = CloseTag
    THEN CHOOSE i \in KindPositions(sent, "text") : sent[i].text = CloseTag
    ELSE 0

\* C17: a batched response holds exactly two blocks, backend A's text in
\* the thinking wrapper and then backend B's text; a streaming session
\* that ends with `done` has sent exactly one opening tag and one closing
\* tag, backend A's deltas all lie between the two and backend B's deltas
\* all come after the closing tag.
C17_OneReasoningOneAnswer ==
    /\ (pc = "returned" /\ Unwrap(response).status = "ok") =>
          Unwrap(response).content =
              << [content_type |-> "text",
                  text |-> OpenTag \o aText \o CloseTag],
                 [content_type |-> "text", text |-> bText] >>
    /\ (pc = "closed" /\ failure = "none") =>
          LET tags == KindPositions(sent, "text")
              c == CloseTagAt
          IN  /\ Cardinality(tags) = 2
              /\ tags = {2, c}
              /\ sent[2].text = OpenTag
              /\ c > 2
              /\ KindPositions(sent, "text_delta") =
                     {i \in 1..Len(sent) : sent[i].type = "content"} \ tags
              /\ StreamedText(SubSeq(sent, 3, c - 1)) = aText
              /\ \A i \in 3..(c - 1) : sent[i].kind = "text_delta"
              /\ StreamedText(SubSeq(sent, c + 1, Len(sent))) = bText
              /\ StreamedText(SubSeq(sent, 1, c)) =
                     OpenTag \o aText \o CloseTag

\* a finished session with deltas of both backends
C17_Witness ==
    /\ pc = "closed"
    /\ failure = "none"
    /\ Len(aText) = 2
    /\ Len(bText) = 2
    /\ CloseTagAt = 5

\* ------------------------------------------------------------------ C20
\* the text of the `text_delta` events among evs, joined in order
RECURSIVE DeltaText(_)
DeltaText(evs) ==
    IF evs = <<>> THEN <<>>
    ELSE (IF Head(evs).type = "content" /\ Head(evs).kind = "text_delta"
          THEN Head(evs).text ELSE <<>>)
         \o DeltaText(Tail(evs))

\* the events sent while backend A was streaming
AStageEvents ==
    IF CloseTagAt = 0 THEN sent ELSE SubSeq(sent, 1, CloseTagAt - 1)

\* one turn of backend A's loop: an event is sent exactly when the
\* accumulated text grows, and by the text of that event
C20_Step ==
    (pc = "aNext" /\ aCount' = aCount + 1) =>
        \/ /\ sent' = sent
           /\ complete_reasoning' = complete_reasoning
        \/ \E d \in Texts \ {<<>>} :
              /\ sent' = Append(sent, ContentEvent("text_delta", d))
              /\ complete_reasoning' = complete_reasoning \o d

\* C20: in a streaming session the accumulated reasoning is always the
\* concatenation of the `text_delta` events sent for backend A, in order;
\* what backend B is given is that text inside the thinking wrapper; a
\* delta is sent exactly when it is accumulated, an empty one is neither,
\* and no `content` event has an empty text.
C20_ReasoningIsForwardedDeltas ==
    /\ [](pc \in StreamPcs =>
            /\ complete_reasoning = DeltaText(AStageEvents)
            /\ \A i \in 1..Len(sent) :
                  sent[i].type = "content" => sent[i].text # <<>>
            /\ callsB = 1 =>
                  LET m == Unwrap(anthropic_messages)
                  IN  /\ m[Len(m)].role = "assistant"
                      /\ m[Len(m)].content =
                             OpenTag \o DeltaText(AStageEvents) \o CloseTag)
    /\ [][C20_Step]_vars

\* backend B was invoked after one turn that brought no text and one that
\* brought a delta
C20_Witness ==
    /\ pc = "bNext"
    /\ callsB = 1
    /\ Len(complete_reasoning) = 1
    /\ aCount = 2
    /\ aYielded

\* ------------------------------------------------------------------ C19
\* n deltas of session s, joined
OwnText(s, n) == [i \in 1..n |-> Unwrap(ScriptTwo(s).content)[1]]

\* every delta and every usage among evs is session s's
OwnEvents(evs, s) ==
    \A i \in 1..Len(evs) :
        /\ (evs[i].type = "content" /\ evs[i].kind = "text_delta") =>
               evs[i].text = Unwrap(ScriptTwo(s).content)
        /\ evs[i].type = "usage" =>
               evs[i].deepseek_usage =
                   StreamDeepSeekUsage(Unwrap(ScriptTwo(s).usage))

\* the state r of session s follows from what the backends sent to s
OwnState(r, s) ==
    /\ OwnEvents(r.sent, s)
    /\ OwnEvents(r.chan, s)
    /\ OwnEvents(r.received, s)
    /\ IsPrefix(r.received, r.sent)
    /\ r.complete_reasoning = OwnText(s, r.aCount)
    /\ r.total_content = OwnText(s, r.bCount)
    /\ DeltaText(r.sent) = OwnText(s, r.aCount + r.bCount)
    /\ r.deepseek_usage =
           IF r.aCount = 0 THEN NoneOpt ELSE ScriptTwo(s).usage
    /\ r.callsB = 1 =>
           Unwrap(r.anthropic_messages) =
               AnthropicMessages(r.messages, OwnText(s, r.aCount))

\* C19: two sessions interleaved in any way stay independent: the
\* accumulated reasoning, the usage snapshot and the events sent, pending
\* and received of each follow from its own backend outputs alone, no
\* event of one is in the other's channel, and a step of one leaves the
\* state of the other as it was.
C19_SessionsIndependent ==
    /\ [](OwnState(Session, turn) /\ OwnState(other, 3 - turn))
    /\ [][turn' = turn => other' = other]_vars
    /\ [][turn' # turn => (other' = Session /\ Session' = other)]_vars

\* both sessions are in the middle of backend A's stream, each with its
\* own text, and the consumer of the first has read some events
C19_Witness ==
    /\ turn = 2
    /\ pc = "aNext"
    /\ complete_reasoning = <<"b">>
    /\ other.pc = "aNext"
    /\ other.complete_reasoning = <<"a", "a">>
    /\ Len(other.received) = 2
    /\ Len(chan) = 3

\* ------------------------------------------------------------------ C21
\* the reported backend B usage u agrees with the reported backend B cost
\* and with itself
ConsistentAnthropicUsage(u, cost) ==
    /\ cost \in format_cost(calculate_anthropic_cost(
                    u.input_tokens, u.output_tokens, Config))
    /\ u.total_tokens = u.input_tokens + u.output_tokens

\* the `usage` events of a streaming session
C21_Streaming ==
    \A i \in Positions(sent, {"usage"}) :
        /\ sent[i].anthropic_usage.input_tokens = anthropic_input_tokens
        /\ sent[i].anthropic_usage.output_tokens = anthropic_output_tokens
        /\ ConsistentAnthropicUsage(sent[i].anthropic_usage,
                                    sent[i].cost.anthropic)

\* the combined usage of a batched response; bSeen holds the counts
\* backend B's cost was computed from
C21_Batched ==
    (pc = "returned" /\ Unwrap(response).status = "ok") =>
        /\ Unwrap(response).anthropic_usage.input_tokens = bSeen[1]
        /\ Unwrap(response).anthropic_usage.output_tokens = bSeen[2]
        /\ ConsistentAnthropicUsage(Unwrap(response).anthropic_usage,
                                    Unwrap(response).cost.anthropic)

\* C21: in both modes the backend B input and output token counts
\* reported in the combined usage are the counts backend B's reported
\* cost was computed from, and the reported backend B total is their sum.
C21_ReportedCountsAreCostCounts == C21_Streaming /\ C21_Batched

====
